---- MODULE Spec2Model ----
(***************************************************************************)
(* Model of xboard-dynamic-rate (src/index.js): one run of the script.     *)
(* The run loads config.yaml, logs in to the panel, fetches the node list, *)
(* builds the list of node updates whose time window is active, and posts  *)
(* them one by one.  Every await of the script is a request action and a   *)
(* response action; the panel's answers and the clock are inputs.          *)
(***************************************************************************)
EXTENDS Integers, Sequences, FiniteSets, TLC

VARIABLES
    pc,               \* position of the script
    file,             \* config.yaml as read from disk
    config,           \* DynamicRate.config
    authData,         \* XBClient.authData
    authorization,    \* XBClient.headers.authorization
    loginReply,       \* the panel's answer to login
    nodesReply,       \* the panel's answer to getNodes
    saveReply,        \* the panel's answer to the latest save
    existNodes,       \* changeRate: existNodes
    clock,            \* the wall clock read while the plan is built
    updateNodesData,  \* changeRate: updateNodesData
    idx,              \* batchChange: position of the for loop
    calls,            \* network requests issued so far, in order
    inflight,         \* requests issued and not yet answered
    console,          \* log lines written so far
    exitCode,         \* exit status of the process, -1 while it runs
    probe             \* one evaluation of isTimeBetween (SpecTime only)

vars == <<pc, file, config, authData, authorization, loginReply, nodesReply,
          saveReply, existNodes, clock, updateNodesData, idx, calls, inflight, console,
          exitCode, probe>>

----------------------------------------------------------------------------
(* Bounds *)

MaxRules == 3
MaxRemote == 2

----------------------------------------------------------------------------
(* JavaScript values *)

\* A field that is absent reads as undefined; authData starts as null.
Undefined == "undefined"
Null == "null"

Truthy(v) == v \notin {Undefined, Null, ""}

Get(obj, f) == IF f \in DOMAIN obj THEN obj[f] ELSE Undefined

\* { ...obj, f: v }
Spread(obj, f, v) ==
    [x \in DOMAIN obj \cup {f} |-> IF x = f THEN v ELSE obj[x]]

SeqsUpTo(S, n) == UNION {[1..m -> S] : m \in 0..n}

----------------------------------------------------------------------------
(* Time: instants are milliseconds counted from midnight (Asia/Shanghai)   *)
(* of the day the script runs on; a time string "HH:mm:ss" is <<h, m, s>>. *)

DayMs == 24 * 60 * 60 * 1000

\* Asia/Shanghai is UTC+8 all year.
ShanghaiOffsetMs == 8 * 60 * 60 * 1000

Hms(h, m, s) == ((h * 60 + m) * 60 + s) * 1000

\* tz(str, "HH:mm:ss", SHANGHAI_TZ): moment-timezone parses through
\* moment.utc, which fills the missing date with the current UTC date, and
\* then reads the fields as Shanghai wall time.  Before 08:00 Shanghai time
\* the UTC date is still the day before.
UtcDay(currentTime) == IF currentTime < ShanghaiOffsetMs THEN -1 ELSE 0

ParseTime(str, currentTime) ==
    UtcDay(currentTime) * DayMs + Hms(str[1], str[2], str[3])

isTimeBetween(startTimeStr, endTimeStr, currentTime) ==
    LET startTime == ParseTime(startTimeStr, currentTime)
        endTime == ParseTime(endTimeStr, currentTime)
    IN  IF startTime > endTime
        THEN currentTime >= startTime \/ currentTime <= endTime
        ELSE currentTime >= startTime /\ currentTime <= endTime

----------------------------------------------------------------------------
(* Inputs *)

W1 == [start_time |-> <<9, 0, 0>>, end_time |-> <<18, 0, 0>>, rate |-> 10]
W2 == [start_time |-> <<18, 0, 0>>, end_time |-> <<9, 0, 0>>, rate |-> 20]

RateConfigs == {<<W1>>, <<W2, W1>>}

\* A rule of config.yaml; the second kind has no type key.
ConfigNodes ==
    {[id |-> 1, type |-> "vmess", rate_config |-> rc] : rc \in RateConfigs}
    \cup {[id |-> 2, rate_config |-> rc] : rc \in RateConfigs}

\* Nodes as the panel lists them.
RemoteNodes ==
    { [id |-> 1, type |-> "vmess", name |-> "hk", rate |-> 5,
       group_id |-> <<1, 2>>],
      [id |-> 1, type |-> "trojan", name |-> "jp", rate |-> 5],
      [id |-> 2, name |-> "us", rate |-> 5, group_id |-> <<>>] }

\* 18:00:00.000, 20:00:00.250 and 02:00:00.000
Clocks == {Hms(18, 0, 0), Hms(20, 0, 0) + 250, Hms(2, 0, 0)}

ScalarKeys == {"host", "admin_path", "admin_account", "admin_password"}

\* The documents config.yaml can hold: any subset of the keys; a scalar key
\* that is present is a string, possibly the empty one.
ConfigDocs ==
    UNION { [ks -> {"x", ""}] : ks \in SUBSET ScalarKeys }

WithNodes(doc, nodes) ==
    [k \in DOMAIN doc \cup {"nodes"} |->
        IF k = "nodes" THEN nodes ELSE doc[k]]

\* readable = FALSE: readFileSync or load throws.
ConfigFiles ==
    {[readable |-> FALSE, doc |-> <<>>]}
    \cup {[readable |-> TRUE, doc |-> d] : d \in ConfigDocs}
    \cup {[readable |-> TRUE, doc |-> WithNodes(d, ns)] :
            d \in ConfigDocs, ns \in SeqsUpTo(ConfigNodes, MaxRules)}

NoReply == [kind |-> "none", is_admin |-> 0, auth_data |-> ""]

LoginReplies ==
    { [kind |-> "timeout", is_admin |-> 0, auth_data |-> ""],
      [kind |-> "error", is_admin |-> 0, auth_data |-> ""],
      [kind |-> "ok", is_admin |-> 0, auth_data |-> "tokA"],
      [kind |-> "ok", is_admin |-> 1, auth_data |-> "tokA"],
      [kind |-> "ok", is_admin |-> 1, auth_data |-> "tokB"],
      [kind |-> "ok", is_admin |-> 1, auth_data |-> ""] }

NodesReplies ==
    { [kind |-> "timeout", data |-> <<>>], [kind |-> "error", data |-> <<>>] }
    \cup {[kind |-> "ok", data |-> ns] : ns \in SeqsUpTo(RemoteNodes, MaxRemote)}

SaveReplies == {"ok", "timeout", "error"}

Line(level, event, detail) ==
    [level |-> level, event |-> event, detail |-> detail]

----------------------------------------------------------------------------
(* DynamicRate.loadConfig *)

\* Variant: the keys are checked in another order.
requiredKeysNodesFirst ==
    <<"nodes", "host", "admin_path", "admin_account", "admin_password">>

requiredKeys == <<"host", "admin_path", "admin_account", "admin_password", "nodes">>

\* !config[key]: the key is absent or holds a falsy value; an array is never
\* falsy.
KeyMissing(doc, key) ==
    \/ key \notin DOMAIN doc
    \/ key # "nodes" /\ ~Truthy(doc[key])

\* The for loop over requiredKeys: the key it throws on, or Undefined.
RECURSIVE FirstMissingFrom(_, _)
FirstMissingFrom(doc, i) ==
    IF i > Len(requiredKeys) THEN Undefined
    ELSE IF KeyMissing(doc, requiredKeys[i]) THEN requiredKeys[i]
    ELSE FirstMissingFrom(doc, i + 1)

\* The message of the error loadConfig throws, or Undefined when it returns.
loadConfig(f) ==
    IF ~f.readable THEN "unreadable" ELSE FirstMissingFrom(f.doc, 1)

----------------------------------------------------------------------------
(* changeRate: the reconciliation loops *)

\* Variant: nodes are matched on id alone.
MatchesIdOnly(existNode, configNode) == existNode.id = configNode.id

Matches(existNode, configNode) ==
    /\ existNode.id = configNode.id
    /\ Get(existNode, "type") = Get(configNode, "type")

\* Variant: the record is built from the fields the script reads.
NewRecordListedFields(existNode, rateConfig) ==
    [id |-> existNode.id, type |-> Get(existNode, "type"),
     rate |-> rateConfig.rate]

NewRecord(existNode, rateConfig) == Spread(existNode, "rate", rateConfig.rate)

RECURSIVE RateConfigLoop(_, _, _, _, _)
RateConfigLoop(existNode, rate_config, k, now, acc) ==
    IF k > Len(rate_config) THEN acc
    ELSE RateConfigLoop(existNode, rate_config, k + 1, now,
            IF isTimeBetween(rate_config[k].start_time,
                             rate_config[k].end_time, now)
            THEN Append(acc, NewRecord(existNode, rate_config[k]))
            ELSE acc)

RECURSIVE ExistNodeLoop(_, _, _, _, _)
ExistNodeLoop(configNode, nodes, j, now, acc) ==
    IF j > Len(nodes) THEN acc
    ELSE ExistNodeLoop(configNode, nodes, j + 1, now,
            IF Matches(nodes[j], configNode)
            THEN RateConfigLoop(nodes[j], configNode.rate_config, 1, now, acc)
            ELSE acc)

RECURSIVE ConfigNodeLoop(_, _, _, _, _)
ConfigNodeLoop(configNodes, nodes, i, now, acc) ==
    IF i > Len(configNodes) THEN acc
    ELSE ConfigNodeLoop(configNodes, nodes, i + 1, now,
            ExistNodeLoop(configNodes[i], nodes, 1, now, acc))

----------------------------------------------------------------------------
(* XBClient.batchChange: the body posted for one record *)

GroupKey(index) == "group_id[" \o ToString(index) \o "]"

EncodeGroup(group_id) ==
    [n \in 1..Len(group_id) |-> <<GroupKey(n - 1), group_id[n]>>]

PostData(nodeData) ==
    IF "group_id" \in DOMAIN nodeData
    THEN Spread(nodeData, "group_id", EncodeGroup(nodeData.group_id))
    ELSE nodeData

Request(op, auth, n, body) ==
    [op |-> op, authorization |-> auth, n |-> n, body |-> body]

----------------------------------------------------------------------------
(* The run *)

NoProbe == [start |-> <<0, 0, 0>>, end |-> <<0, 0, 0>>, now |-> 0,
            called |-> FALSE, result |-> FALSE]

Init ==
    /\ pc = "start"
    /\ file \in ConfigFiles
    /\ config = <<>>
    /\ authData = Null
    /\ authorization = ""
    /\ loginReply = NoReply
    /\ nodesReply = [kind |-> "none", data |-> <<>>]
    /\ saveReply = [kind |-> "none", n |-> 0]
    /\ existNodes = <<>>
    /\ clock = 0
    /\ updateNodesData = <<>>
    /\ idx = 0
    /\ calls = <<>>
    /\ inflight = {}
    /\ console = {}
    /\ exitCode = -1
    /\ probe = NoProbe

\* The async function at the end of the file has returned: nothing is left
\* to run and the process exits with status 0.
Exit(lines) ==
    /\ pc' = "done"
    /\ console' = console \cup lines
    /\ exitCode' = 0

\* An error thrown inside changeRate: its catch logs it and returns.
ChangeRateCatch(lines) ==
    Exit(lines \cup {Line("error", "changeRateFailed", "")})

\* new DynamicRate(): loadConfig, then the XBClient; an error goes to the
\* catch of the entry function.
NewDynamicRate ==
    /\ pc = "start"
    /\ LET err == loadConfig(file)
       IN  IF err # Undefined
           THEN /\ Exit({Line("error", "loadConfigFailed", err),
                         Line("error", "scriptFailed", err)})
                /\ UNCHANGED <<config, authData>>
           ELSE /\ config' = file.doc
                /\ authData' = Null
                /\ pc' = "login"
                /\ UNCHANGED <<console, exitCode>>
    /\ UNCHANGED <<file, authorization, loginReply, nodesReply, saveReply,
                   existNodes,
                   clock, updateNodesData, idx, calls, inflight, probe>>

\* login: axios.post without headers.
LoginRequest ==
    /\ pc = "login"
    /\ calls' = Append(calls,
            Request("login", "", 0,
                    [email |-> config.admin_account,
                     password |-> config.admin_password]))
    /\ inflight' = inflight \cup {Len(calls) + 1}
    /\ pc' = "awaitLogin"
    /\ UNCHANGED <<file, config, authData, authorization, loginReply,
                   nodesReply, saveReply, existNodes, clock, updateNodesData, idx,
                   console, exitCode, probe>>

\* Variant: the is_admin test is left out.
LoginResponseNoAdminCheck ==
    /\ pc = "awaitLogin"
    /\ \E r \in LoginReplies :
        /\ loginReply' = r
        /\ inflight' = inflight \ {Len(calls)}
        /\ IF r.kind # "ok"
           THEN /\ ChangeRateCatch({Line("error", "loginFailed", "")})
                /\ UNCHANGED authData
           ELSE /\ authData' = r.auth_data
                /\ console' = console \cup {Line("info", "loginOk", "")}
                /\ pc' = "getNodes"
                /\ UNCHANGED exitCode
    /\ UNCHANGED <<file, config, authorization, nodesReply, saveReply, existNodes,
                   clock, updateNodesData, idx, calls, probe>>

LoginResponse ==
    /\ pc = "awaitLogin"
    /\ \E r \in LoginReplies :
        /\ loginReply' = r
        /\ inflight' = inflight \ {Len(calls)}
        /\ IF r.kind # "ok" \/ r.is_admin # 1
           THEN /\ ChangeRateCatch({Line("error", "loginFailed", "")})
                /\ UNCHANGED authData
           ELSE /\ authData' = r.auth_data
                /\ console' = console \cup {Line("info", "loginOk", "")}
                /\ pc' = "getNodes"
                /\ UNCHANGED exitCode
    /\ UNCHANGED <<file, config, authorization, nodesReply, saveReply, existNodes,
                   clock,
                   updateNodesData, idx, calls, probe>>

\* Variant: getNodes does not test authData.
GetNodesRequestNoGuard ==
    /\ pc = "getNodes"
    /\ authorization' = authData
    /\ calls' = Append(calls, Request("getNodes", authData, 0, <<>>))
    /\ inflight' = inflight \cup {Len(calls) + 1}
    /\ pc' = "awaitNodes"
    /\ UNCHANGED <<file, config, authData, loginReply, nodesReply, saveReply,
                   existNodes, clock, updateNodesData, idx, console, exitCode,
                   probe>>

GetNodesRequest ==
    /\ pc = "getNodes"
    /\ IF ~Truthy(authData)
       THEN /\ ChangeRateCatch({})
            /\ UNCHANGED <<authorization, calls, inflight>>
       ELSE /\ authorization' = authData
            /\ calls' = Append(calls, Request("getNodes", authData, 0, <<>>))
            /\ inflight' = inflight \cup {Len(calls) + 1}
            /\ pc' = "awaitNodes"
            /\ UNCHANGED <<console, exitCode>>
    /\ UNCHANGED <<file, config, authData, loginReply, nodesReply, saveReply,
                   existNodes,
                   clock, updateNodesData, idx, probe>>

GetNodesResponse ==
    /\ pc = "awaitNodes"
    /\ \E r \in NodesReplies :
        /\ nodesReply' = r
        /\ inflight' = inflight \ {Len(calls)}
        /\ IF r.kind # "ok"
           THEN /\ ChangeRateCatch({Line("error", "getNodesFailed", "")})
                /\ UNCHANGED existNodes
           ELSE /\ existNodes' = r.data
                /\ console' = console \cup {Line("info", "getNodesOk", "")}
                /\ pc' = "plan"
                /\ UNCHANGED exitCode
    /\ UNCHANGED <<file, config, authData, authorization, loginReply,
                   saveReply, clock, updateNodesData, idx, calls, probe>>

\* The three nested loops of changeRate and the test that follows them.
BuildPlan ==
    /\ pc = "plan"
    /\ \E now \in Clocks :
        /\ clock' = now
        /\ updateNodesData' =
               ConfigNodeLoop(config.nodes, existNodes, 1, now, <<>>)
    /\ IF Len(updateNodesData') > 0
       THEN /\ pc' = "batchChange"
            /\ UNCHANGED <<console, exitCode>>
       ELSE Exit({Line("info", "nothingToUpdate", "")})
    /\ UNCHANGED <<file, config, authData, authorization, loginReply,
                   nodesReply, saveReply, existNodes, idx, calls, inflight, probe>>

\* batchChange up to its for loop.
BatchChange ==
    /\ pc = "batchChange"
    /\ IF ~Truthy(authData)
       THEN /\ ChangeRateCatch({})
            /\ UNCHANGED <<authorization, idx>>
       ELSE /\ authorization' = authData
            /\ idx' = 1
            /\ pc' = "loop"
            /\ UNCHANGED <<console, exitCode>>
    /\ UNCHANGED <<file, config, authData, loginReply, nodesReply, saveReply,
                   existNodes,
                   clock, updateNodesData, calls, inflight, probe>>

\* Variant: the post is not awaited.
SaveRequestNoAwait ==
    /\ pc = "loop"
    /\ idx <= Len(updateNodesData)
    /\ LET postData == PostData(updateNodesData[idx])
       IN  IF ~Truthy(Get(postData, "type"))
           THEN /\ ChangeRateCatch({})
                /\ UNCHANGED <<calls, inflight, idx>>
           ELSE /\ calls' = Append(calls,
                        Request("save", authorization, idx, postData))
                /\ inflight' = inflight \cup {Len(calls) + 1}
                /\ idx' = idx + 1
                /\ UNCHANGED <<pc, console, exitCode>>
    /\ UNCHANGED <<file, config, authData, authorization, loginReply,
                   nodesReply, saveReply, existNodes, clock, updateNodesData,
                   probe>>

\* One pass of the for loop up to its await: the record without a type
\* throws out of batchChange.
SaveRequest ==
    /\ pc = "loop"
    /\ idx <= Len(updateNodesData)
    /\ LET postData == PostData(updateNodesData[idx])
       IN  IF ~Truthy(Get(postData, "type"))
           THEN /\ ChangeRateCatch({})
                /\ UNCHANGED <<calls, inflight>>
           ELSE /\ calls' = Append(calls,
                        Request("save", authorization, idx, postData))
                /\ inflight' = inflight \cup {Len(calls) + 1}
                /\ pc' = "awaitSave"
                /\ UNCHANGED <<console, exitCode>>
    /\ UNCHANGED <<file, config, authData, authorization, loginReply,
                   nodesReply, saveReply, existNodes, clock, updateNodesData, idx, probe>>

\* The await of one save returns or throws into the catch inside the loop.
SaveResponse ==
    /\ pc = "awaitSave"
    /\ \E r \in SaveReplies :
        /\ saveReply' = [kind |-> r, n |-> idx]
        /\ console' = console \cup
              {IF r = "ok" THEN Line("info", "saveOk", "")
                           ELSE Line("error", "saveFailed", "")}
    /\ inflight' = inflight \ {Len(calls)}
    /\ idx' = idx + 1
    /\ pc' = "loop"
    /\ UNCHANGED <<file, config, authData, authorization, loginReply,
                   nodesReply, existNodes, clock, updateNodesData, calls,
                   exitCode, probe>>

\* The for loop is over: batchChange and changeRate return.
BatchReturn ==
    /\ pc = "loop"
    /\ idx > Len(updateNodesData)
    /\ Exit({})
    /\ UNCHANGED <<file, config, authData, authorization, loginReply,
                   nodesReply, saveReply, existNodes, clock, updateNodesData, idx, calls,
                   inflight, probe>>

Next ==
    \/ NewDynamicRate
    \/ LoginRequest
    \/ LoginResponse
    \/ GetNodesRequest
    \/ GetNodesResponse
    \/ BuildPlan
    \/ BatchChange
    \/ SaveRequest
    \/ SaveResponse
    \/ BatchReturn

Spec == Init /\ [][Next]_vars

----------------------------------------------------------------------------
(* isTimeBetween on its own: SpecTime draws a window and a clock reading   *)
(* and calls the function once.                                            *)

TimeStrs == {<<1, 0, 0>>, <<2, 0, 0>>, <<3, 0, 0>>, <<9, 0, 0>>,
             <<18, 0, 0>>, <<22, 0, 0>>}

Nows == {Hms(0, 0, 1), Hms(2, 0, 0), Hms(5, 0, 0), Hms(8, 0, 0),
         Hms(12, 0, 0), Hms(18, 0, 0), Hms(18, 0, 0) + 500, Hms(22, 0, 0),
         Hms(23, 59, 59)}

InitTime ==
    /\ pc = "time"
    /\ file = [readable |-> FALSE, doc |-> <<>>]
    /\ config = <<>>
    /\ authData = Null
    /\ authorization = ""
    /\ loginReply = NoReply
    /\ nodesReply = [kind |-> "none", data |-> <<>>]
    /\ saveReply = [kind |-> "none", n |-> 0]
    /\ existNodes = <<>>
    /\ clock = 0
    /\ updateNodesData = <<>>
    /\ idx = 0
    /\ calls = <<>>
    /\ inflight = {}
    /\ console = {}
    /\ exitCode = -1
    /\ probe \in {[start |-> a, end |-> b, now |-> t, called |-> FALSE,
                   result |-> FALSE] : a \in TimeStrs, b \in TimeStrs, t \in Nows}

CallIsTimeBetween ==
    /\ pc = "time"
    /\ ~probe.called
    /\ probe' = [probe EXCEPT !.called = TRUE,
                    !.result = isTimeBetween(probe.start, probe.end, probe.now)]
    /\ UNCHANGED <<pc, file, config, authData, authorization, loginReply,
                   nodesReply, saveReply, existNodes, clock, updateNodesData,
                   idx, calls, inflight, console, exitCode>>

NextTime == CallIsTimeBetween

SpecTime == InitTime /\ [][NextTime]_vars

----------------------------------------------------------------------------
(* Properties *)

SaveCalls == SelectSeq(calls, LAMBDA c : c.op = "save")

CallsOf(ops) == {n \in 1..Len(calls) : calls[n].op \in ops}

Logged(event) == \E l \in console : l.event = event

\* The plan has been built from a fetched node list.
Planned ==
    nodesReply.kind = "ok" /\ pc \in {"batchChange", "loop", "awaitSave", "done"}

\* The loops of changeRate have just ended: batchChange is about to be
\* called, or the plan is empty and the run is over.
PlanBuilt ==
    nodesReply.kind = "ok" /\ (pc = "batchChange" \/ (pc = "done" /\ idx = 0))

\* batchChange has entered its loop.
Applying == Planned /\ idx >= 1

HasType(rec) == "type" \in DOMAIN rec /\ rec.type # ""

SavedRecord(i) == \E n \in 1..Len(calls) : calls[n].op = "save" /\ calls[n].n = i

\* C1: in a finished apply step every record that has a type has had its
\* save call issued, whatever records without a type the batch holds: a
\* record without a type stops no record but itself.
C1_BadRecordRejectedAlone ==
    pc = "done" /\ Applying =>
        \A i \in 1..Len(updateNodesData) :
            HasType(updateNodesData[i]) => SavedRecord(i)

LoginFailed(r) ==
    r.kind \in {"timeout", "error"} \/ (r.kind = "ok" /\ r.is_admin # 1)

FetchFailed(r) == r.kind \in {"timeout", "error"}

FatalError ==
    \/ loadConfig(file) # Undefined
    \/ LoginFailed(loginReply)
    \/ FetchFailed(nodesReply)

\* C2: a finished run that met a fatal error has handed the error to the
\* entry function and has a non-zero exit status; a run with exit status 0
\* met no fatal error.
C2_FatalErrorFailsTheProcess ==
    pc = "done" =>
        /\ FatalError => Logged("scriptFailed") /\ exitCode # 0
        /\ exitCode = 0 => ~FatalError

\* The window test of the specification on times of day.
WindowActive(start, end, now) ==
    LET s == Hms(start[1], start[2], start[3])
        e == Hms(end[1], end[2], end[3])
    IN  IF s <= e THEN s <= now /\ now <= e ELSE now >= s \/ now <= e

\* C3: at every clock reading on a whole second, isTimeBetween answers
\* true exactly when start <= now <= end (start <= end) or when
\* now >= start or now <= end (start > end), both ends included.
C3_WindowTest ==
    probe.called /\ probe.now % 1000 = 0 =>
        (probe.result <=> WindowActive(probe.start, probe.end, probe.now))

\* The (rule, remote node, window) positions that match and are active at
\* the clock reading of the plan.
Triples ==
    {t \in UNION {{<<i, j, k>> : k \in 1..Len(config.nodes[i].rate_config)} :
                    i \in 1..Len(config.nodes), j \in 1..Len(existNodes)} :
        LET rule == config.nodes[t[1]]
            node == existNodes[t[2]]
            w == rule.rate_config[t[3]]
        IN  /\ node.id = rule.id
            /\ ("type" \in DOMAIN node) = ("type" \in DOMAIN rule)
            /\ "type" \in DOMAIN node => node.type = rule.type
            /\ isTimeBetween(w.start_time, w.end_time, clock)}

Before(t, u) ==
    \/ t[1] < u[1]
    \/ t[1] = u[1] /\ t[2] < u[2]
    \/ t[1] = u[1] /\ t[2] = u[2] /\ t[3] < u[3]

Rank(t, T) == 1 + Cardinality({u \in T : Before(u, t)})

WindowOf(t) == config.nodes[t[1]].rate_config[t[3]]

C5_RecordCopiesRemoteNode ==
    PlanBuilt =>
        LET T == Triples
        IN  /\ \A n \in 1..Len(updateNodesData) :
                  \E t \in T :
                     /\ Rank(t, T) = n
                     /\ DOMAIN updateNodesData[n] =
                           DOMAIN existNodes[t[2]] \cup {"rate"}
                     /\ \A f \in DOMAIN existNodes[t[2]] \ {"rate"} :
                           updateNodesData[n][f] = existNodes[t[2]][f]
                     /\ updateNodesData[n].rate = WindowOf(t).rate
            /\ existNodes = nodesReply.data
            /\ config = file.doc

C5_Witness ==
    /\ PlanBuilt
    /\ \E n \in 1..Len(updateNodesData) :
          /\ updateNodesData[n].rate = 20
          /\ updateNodesData[n].name = "hk"
          /\ updateNodesData[n].group_id = <<1, 2>>
    /\ \E j \in 1..Len(existNodes) : existNodes[j].rate = 5

\* C6: after a failed login no getNodes and no save request exists, after
\* a failed node fetch no save request exists, and a save request exists
\* only after a successful login and a successful fetch.
C6_NoCallsAfterFatalFailure ==
    /\ LoginFailed(loginReply) => CallsOf({"getNodes", "save"}) = {}
    /\ FetchFailed(nodesReply) => CallsOf({"save"}) = {}
    /\ CallsOf({"getNodes"}) # {} =>
          loginReply.kind = "ok" /\ loginReply.is_admin = 1
    /\ CallsOf({"save"}) # {} =>
          /\ loginReply.kind = "ok" /\ loginReply.is_admin = 1
          /\ nodesReply.kind = "ok"

C6_Witness ==
    /\ pc = "done"
    /\ loginReply.kind = "ok" /\ loginReply.is_admin = 0
    /\ Len(calls) = 1

\* C7: once the latest save has failed and the run is over, every later
\* record of the batch that has a type has had its save call issued, and the
\* failure was logged.
C7_SaveFailureSkipsOneRecord ==
    pc = "done" /\ saveReply.kind \in {"timeout", "error"} =>
        /\ Logged("saveFailed")
        /\ \A j \in (saveReply.n + 1)..Len(updateNodesData) :
              HasType(updateNodesData[j]) => SavedRecord(j)

\* C8: at most one request is unanswered at any moment; the save calls
\* are for records of the plan at strictly increasing positions, so none is
\* sent twice; an empty plan ends the run with no save call, the "nothing to
\* update" line, no error line and exit status 0.
C8_SavesSequentialAtMostOnce ==
    /\ Cardinality(inflight) <= 1
    /\ LET saves == SaveCalls
       IN  \A a \in 1..Len(saves) :
              /\ saves[a].n \in 1..Len(updateNodesData)
              /\ saves[a].body.id = updateNodesData[saves[a].n].id
              /\ saves[a].body.rate = updateNodesData[saves[a].n].rate
              /\ a > 1 => saves[a - 1].n < saves[a].n
    /\ pc = "awaitSave" => inflight = {Len(calls)} /\ calls[Len(calls)].n = idx
    /\ Planned /\ updateNodesData = <<>> =>
          /\ pc = "done"
          /\ SaveCalls = <<>>
          /\ Logged("nothingToUpdate")
          /\ \A l \in console : l.level # "error"
          /\ exitCode = 0

C8_Witness ==
    /\ pc = "awaitSave"
    /\ Len(SaveCalls) = 3
    /\ saveReply.kind = "timeout"

ClaimedKeys == <<"host", "admin_path", "admin_account", "admin_password", "nodes">>

\* A key counts as missing when the document lacks it or gives it no value.
MissingKeys(doc) ==
    {n \in 1..Len(ClaimedKeys) :
        \/ ClaimedKeys[n] \notin DOMAIN doc
        \/ ClaimedKeys[n] # "nodes" /\ doc[ClaimedKeys[n]] = ""}

\* C9: when config.yaml lacks a required key, the constructor has failed
\* with the error that names the first missing key in the order host,
\* admin_path, admin_account, admin_password, nodes, and no request has been
\* issued.
C9_MissingKeyStopsBeforeNetwork ==
    file.readable /\ MissingKeys(file.doc) # {} /\ pc \notin {"start", "time"} =>
        /\ pc = "done"
        /\ \E n \in MissingKeys(file.doc) :
              /\ \A m \in MissingKeys(file.doc) : n <= m
              /\ Line("error", "loadConfigFailed", ClaimedKeys[n]) \in console
        /\ Cardinality({l \in console : l.event = "loadConfigFailed"}) = 1
        /\ calls = <<>>

C9_Witness ==
    /\ pc = "done"
    /\ file.readable
    /\ "host" \in DOMAIN file.doc /\ file.doc["host"] = "x"
    /\ "admin_path" \in DOMAIN file.doc /\ file.doc["admin_path"] = ""
    /\ "nodes" \notin DOMAIN file.doc
    /\ Line("error", "loadConfigFailed", "admin_path") \in console

LoginSucceeded == loginReply.kind = "ok" /\ loginReply.is_admin = 1

TokenDiscipline ==
    /\ \A n \in CallsOf({"getNodes", "save"}) :
          /\ n > 1 /\ calls[1].op = "login"
          /\ LoginSucceeded
          /\ calls[n].authorization = loginReply.auth_data
          /\ calls[n].authorization # ""
    /\ LoginSucceeded => authData = loginReply.auth_data
    /\ ~LoginSucceeded => authData = Null
    /\ ~Truthy(authData) => CallsOf({"getNodes", "save"}) = {}

\* C10 as stated: every finished run has issued exactly one login request,
\* and every getNodes and save request follows the successful login and
\* carries the token it returned, which stays as stored; without a stored
\* token no getNodes or save request is issued.
C10_LoginOnceInEveryRun ==
    /\ pc = "done" => Cardinality(CallsOf({"login"})) = 1
    /\ TokenDiscipline

\* C10 amended: login is requested at most once, and exactly once in
\* every finished run whose configuration loaded; the rest as stated.
C10_LoginOnceWhenConfigLoads ==
    /\ Cardinality(CallsOf({"login"})) <= 1
    /\ pc = "done" /\ loadConfig(file) = Undefined =>
          Cardinality(CallsOf({"login"})) = 1
    /\ loadConfig(file) # Undefined => calls = <<>>
    /\ TokenDiscipline

C10_Witness ==
    /\ pc = "done"
    /\ Len(SaveCalls) >= 2
    /\ \A n \in CallsOf({"getNodes", "save"}) : calls[n].authorization = "tokB"

====
